---- MODULE Spec2Model ----
(***************************************************************************)
(* Model of src/app.py: a Streamlit script that translates a question into *)
(* SQL with an LLM, runs it on BigQuery and summarises the result.         *)
(*                                                                         *)
(* Streamlit executes the script top to bottom on every user interaction   *)
(* (a "script run").  Text is modelled as a sequence of one-character      *)
(* strings; prompts and rendered messages are sequences of tokens, where a *)
(* literal fragment of an f-string is one token.                           *)
(***************************************************************************)
EXTENDS Naturals, Sequences, FiniteSets, TLC

VARIABLES
    pc,            \* position of the current script run
    runs,          \* number of script runs started so far
    fetchCount,    \* number of bq_client.get_table calls since process start
    question,      \* value of st.text_input in this run
    pressed,       \* value of st.button("Ask") in this run
    columns,       \* list of column names (line 53)
    column_types,  \* dict name -> field_type (line 54)
    sidebar,       \* elements written to st.sidebar in this run
    sql_prompt,    \* prompt of the SQL-generation call
    response,      \* raw content of the SQL-generation response
    sql_code,      \* cleaned SQL
    df,            \* materialised result table (a sequence of rows)
    rendered,      \* elements the Ask handler rendered in this run
    calls,         \* collaborator calls of this run, in order
    exception      \* text of the exception that aborted this run, or NoException

vars == << pc, runs, fetchCount, question, pressed, columns, column_types,
           sidebar, sql_prompt, response, sql_code, df, rendered, calls,
           exception >>

----------------------------------------------------------------------------
(* Bounds *)

MaxRuns == 2
MaxBodyLen == 2
MaxTextLen == 6
MaxCols == 2
MaxQuestionLen == 1

(* Program constant: df.head(10) *)
HeadRows == 10

----------------------------------------------------------------------------
(* Generic helpers *)

Min(a, b) == IF a < b THEN a ELSE b

Range(s) == { s[i] : i \in 1..Len(s) }

SeqsUpTo(S, n) == UNION { [1..k -> S] : k \in 0..n }

\* sub occurs in s as a contiguous run
Contains(s, sub) ==
    \E i \in 0..(Len(s) - Len(sub)) :
        \A j \in 1..Len(sub) : s[i + j] = sub[j]

StartsWith(s, pat) ==
    /\ Len(s) >= Len(pat)
    /\ \A j \in 1..Len(pat) : s[j] = pat[j]

----------------------------------------------------------------------------
(* Python string operations used by the script *)

\* characters str.strip() removes
IsSpace(c) == c \in {" ", "\n", "\t", "\r"}

RECURSIVE LStrip(_)
LStrip(s) ==
    IF s = <<>> THEN s
    ELSE IF IsSpace(Head(s)) THEN LStrip(Tail(s)) ELSE s

RECURSIVE RStrip(_)
RStrip(s) ==
    IF s = <<>> THEN s
    ELSE IF IsSpace(s[Len(s)]) THEN RStrip(SubSeq(s, 1, Len(s) - 1)) ELSE s

\* str.strip()
Strip(s) == RStrip(LStrip(s))

\* str.replace(pat, ""): leftmost, non-overlapping occurrences are removed
RECURSIVE RemoveAll(_, _)
RemoveAll(s, pat) ==
    IF Len(s) < Len(pat) THEN s
    ELSE IF StartsWith(s, pat)
         THEN RemoveAll(SubSeq(s, Len(pat) + 1, Len(s)), pat)
         ELSE <<Head(s)>> \o RemoveAll(Tail(s), pat)

\* the backquote character U+0060 (string literals cannot hold it)
BT == "bt"

\* the marker of an opening fence with its language tag, and the bare fence
FenceSql == << BT, BT, BT, "s", "q", "l" >>
Fence == << BT, BT, BT >>

\* a variant of the cleaning step that leaves the language tag of a fence
CleanLeavesTag(text) ==
    Strip(RemoveAll(Strip(text), Fence))

\* a variant of the cleaning step that forgets the final strip()
CleanNoFinalStrip(text) ==
    RemoveAll(RemoveAll(Strip(text), FenceSql), Fence)

\* lines 101-102: content.strip(), both replace() calls, .strip()
Clean(text) ==
    Strip(RemoveAll(RemoveAll(Strip(text), FenceSql), Fence))

\* ', '.join(xs)
RECURSIVE Join(_)
Join(xs) ==
    IF Len(xs) = 0 THEN <<>>
    ELSE IF Len(xs) = 1 THEN << xs[1] >>
    ELSE << xs[1], ", " >> \o Join(Tail(xs))

\* repr of a str key or value: 'text'
Repr(x) == << "'", x, "'" >>

\* str(dict): {'k1': 'v1', 'k2': 'v2'} in insertion order
RECURSIVE DictItems(_, _)
DictItems(keys, d) ==
    IF Len(keys) = 0 THEN <<>>
    ELSE Repr(keys[1]) \o << ": " >> \o Repr(d[keys[1]])
         \o (IF Len(keys) = 1 THEN <<>> ELSE << ", " >>)
         \o DictItems(Tail(keys), d)

DictRepr(keys, d) == << "{" >> \o DictItems(keys, d) \o << "}" >>

----------------------------------------------------------------------------
(* Inputs: what the collaborators and the user can supply *)

\* fields of the warehouse table (SchemaField.name, SchemaField.field_type)
Fields ==
    { [name |-> "workshop1_topic", field_type |-> "STRING"],
      [name |-> "workshop_count", field_type |-> "INTEGER"],
      [name |-> "year", field_type |-> "INTEGER"] }

\* table.schema: a list of fields with distinct names
Schemas ==
    { s \in SeqsUpTo(Fields, MaxCols) :
        \A i, j \in 1..Len(s) : i # j => s[i].name # s[j].name }

\* values of the text input
Questions == SeqsUpTo({" ", "w"}, MaxQuestionLen)

\* a question made of whitespace only (the empty one included)
IsBlank(q) == \A i \in 1..Len(q) : IsSpace(q[i])

\* bodies of model responses
Bodies == SeqsUpTo({BT, "S", " "}, MaxBodyLen)

\* a response wrapped in a fence with the sql language tag
Fenced(b) == FenceSql \o << "\n" >> \o b \o << "\n" >> \o Fence

\* a response wrapped in a bare fence
BareFenced(b) == Fence \o << "\n" >> \o b \o << "\n" >> \o Fence

\* message.content values the SQL-generation call can return
Responses ==
    Bodies \cup { Fenced(b) : b \in Bodies } \cup { BareFenced(b) : b \in Bodies }

\* texts for the cleaning step on its own
Texts == SeqsUpTo({BT, "s", "q", "l", " "}, MaxTextLen)

\* str(e) of exceptions the warehouse client raises
WarehouseErrors == { "400 Syntax error", "403 Access Denied" }

\* str(e) of exceptions the LLM client raises
LlmErrors == { "RateLimitError" }

\* message.content values the summarization call can return
Summaries == << "The result lists one workshop." >>

\* numbers of rows a query can return
RowCounts == { 0, 1, HeadRows + 1 }

Rows(n) == [ i \in 1..n |-> "row" ]

NoException == "none"

----------------------------------------------------------------------------
(* Prompts and rendered elements *)

PromptRulesHead ==
    "\nYou are a data assistant. [...]\n- Only use these exact columns: "
PromptTypesLabel == "\n- Column data types: "
PromptRulesTail ==
    "\n- When filtering, always match the correct type: [...]\n\nUser question: "
PromptEnd == "\n    "

\* lines 74-92 with the rule about column types left out
SqlPromptNoTypes(cols, types, q) ==
    << PromptRulesHead >> \o Join(cols)
        \o << PromptRulesTail >> \o q \o << PromptEnd >>

\* lines 74-92: the f-string sql_prompt
SqlPrompt(cols, types, q) ==
    << PromptRulesHead >> \o Join(cols)
        \o << PromptTypesLabel >> \o DictRepr(cols, types)
        \o << PromptRulesTail >> \o q \o << PromptEnd >>

\* lines 118-127: the f-string summary_prompt; df.head(10).to_string()
SummaryPrompt(table) ==
    << "\nHere is the SQL query result:\n" >>
        \o SubSeq(table, 1, Min(Len(table), HeadRows))
        \o << "\n\nPlease write a clear, human-friendly summary: [...]\n" >>

Element(kind, body) == [ kind |-> kind, body |-> body ]

QuestionEcho(q) == Element("write", << "**Your question:** " >> \o q)

ErrorLabel == "There was an error running the query: "

\* an error message that leaves the exception text out
ErrorMessageNoText(e) == Element("error", << ErrorLabel >>)

\* line 140: st.error(f"... There was an error running the query: {e}")
ErrorMessage(e) == Element("error", << ErrorLabel, e >>)

NoDataNotice == Element("warning", << "The query returned no data." >>)

\* a df.empty that never reports an empty table
DfEmptyNever(table) == FALSE

\* line 112: df.empty
DfEmpty(table) == Len(table) = 0

\* line 70: "and question"; a Python str is truthy iff it is not empty
Truthy(q) == Len(q) > 0

\* a collaborator call: its data (the argument; for get_table the schema it
\* returned) and str(e) of the exception it raised, if any
Call(op, data, err) ==
    [ op |-> op, data |-> data, raised |-> err # NoException, err |-> err ]

Ops(cs) == [ i \in 1..Len(cs) |-> cs[i].op ]

Kinds(rs) == [ i \in 1..Len(rs) |-> rs[i].kind ]

----------------------------------------------------------------------------
(* The script *)

Init ==
    /\ pc = "start"
    /\ runs = 1
    /\ fetchCount = 0
    /\ question = <<>>
    /\ pressed = FALSE
    /\ columns = <<>>
    /\ column_types = <<>>
    /\ sidebar = <<>>
    /\ sql_prompt = <<>>
    /\ response = <<>>
    /\ sql_code = <<>>
    /\ df = <<>>
    /\ rendered = <<>>
    /\ calls = <<>>
    /\ exception = NoException

\* lines 52-65: get_table returns; columns, column_types, the sidebar
FetchSchema ==
    /\ pc = "start"
    /\ \E s \in Schemas :
        /\ columns' = [ i \in 1..Len(s) |-> s[i].name ]
        /\ column_types' =
              [ n \in { s[i].name : i \in 1..Len(s) } |->
                  (CHOOSE f \in Range(s) : f.name = n).field_type ]
        /\ sidebar' =
              << Element("write", << "Available columns:" >>
                     \o [ i \in 1..Len(s) |-> s[i].name ]),
                 Element("write", << "Column types:" >>
                     \o DictRepr([ i \in 1..Len(s) |-> s[i].name ],
                                 [ n \in { s[i].name : i \in 1..Len(s) } |->
                                     (CHOOSE f \in Range(s) : f.name = n).field_type ])) >>
        /\ calls' = Append(calls, Call("get_table", s, NoException))
    /\ fetchCount' = fetchCount + 1
    /\ pc' = "input"
    /\ UNCHANGED << runs, question, pressed, sql_prompt, response, sql_code,
                    df, rendered, exception >>

\* line 52: get_table raises; nothing catches it and the run ends
FetchSchemaFails ==
    /\ pc = "start"
    /\ \E e \in WarehouseErrors :
        /\ calls' = Append(calls, Call("get_table", <<>>, e))
        /\ exception' = e
    /\ fetchCount' = fetchCount + 1
    /\ pc' = "aborted"
    /\ UNCHANGED << runs, question, pressed, columns, column_types, sidebar,
                    sql_prompt, response, sql_code, df, rendered >>

\* lines 68-92: the guard, the echo of the question and the prompt
AskGuard ==
    /\ pc = "input"
    /\ IF pressed /\ Truthy(question)
       THEN /\ rendered' = Append(rendered, QuestionEcho(question))
            /\ sql_prompt' = SqlPrompt(columns, column_types, question)
            /\ pc' = "generate"
       ELSE /\ pc' = "done"
            /\ UNCHANGED << rendered, sql_prompt >>
    /\ UNCHANGED << runs, fetchCount, question, pressed, columns, column_types,
                    sidebar, response, sql_code, df, calls, exception >>

\* a handler that swallows the failure of the generation call and goes on
GenerateFailsSwallowed ==
    /\ pc = "generate"
    /\ \E e \in LlmErrors :
        calls' = Append(calls, Call("llm_sql", sql_prompt, e))
    /\ rendered' = Append(rendered, Element("code", <<>>))
    /\ pc' = "query"
    /\ UNCHANGED << runs, fetchCount, question, pressed, columns, column_types,
                    sidebar, sql_prompt, response, sql_code, df, exception >>

\* lines 94-98: the generation call raises; nothing catches it
GenerateFails ==
    /\ pc = "generate"
    /\ \E e \in LlmErrors :
        /\ calls' = Append(calls, Call("llm_sql", sql_prompt, e))
        /\ exception' = e
    /\ pc' = "aborted"
    /\ UNCHANGED << runs, fetchCount, question, pressed, columns, column_types,
                    sidebar, sql_prompt, response, sql_code, df, rendered >>

\* lines 94-103: the generation call returns; the SQL is cleaned and shown
GenerateReturns ==
    /\ pc = "generate"
    /\ \E r \in Responses :
        /\ response' = r
        /\ sql_code' = Clean(r)
        /\ rendered' = Append(rendered, Element("code", Clean(r)))
    /\ calls' = Append(calls, Call("llm_sql", sql_prompt, NoException))
    /\ pc' = "query"
    /\ UNCHANGED << runs, fetchCount, question, pressed, columns, column_types,
                    sidebar, sql_prompt, df, exception >>

\* line 107: bq_client.query(sql_code) returns a job
QueryReturns ==
    /\ pc = "query"
    /\ calls' = Append(calls, Call("bq_query", sql_code, NoException))
    /\ pc' = "materialize"
    /\ UNCHANGED << runs, fetchCount, question, pressed, columns, column_types,
                    sidebar, sql_prompt, response, sql_code, df, rendered,
                    exception >>

\* an execution error that sends the run back to the generation call
QueryRaisesRetries ==
    /\ pc = "query"
    /\ \E e \in WarehouseErrors :
        /\ calls' = Append(calls, Call("bq_query", sql_code, e))
        /\ rendered' = Append(rendered, ErrorMessage(e))
    /\ pc' = "generate"
    /\ UNCHANGED << runs, fetchCount, question, pressed, columns, column_types,
                    sidebar, sql_prompt, response, sql_code, df, exception >>

\* lines 107, 139-140: bq_client.query(sql_code) raises
QueryRaises ==
    /\ pc = "query"
    /\ \E e \in WarehouseErrors :
        /\ calls' = Append(calls, Call("bq_query", sql_code, e))
        /\ rendered' = Append(rendered, ErrorMessage(e))
    /\ pc' = "done"
    /\ UNCHANGED << runs, fetchCount, question, pressed, columns, column_types,
                    sidebar, sql_prompt, response, sql_code, df, exception >>

\* lines 108-127: to_dataframe returns; the table or the notice is shown
ToDataframeReturns ==
    /\ pc = "materialize"
    /\ \E n \in RowCounts :
        /\ df' = Rows(n)
        /\ IF DfEmpty(Rows(n))
           THEN /\ rendered' = rendered \o
                      << Element("subheader", << "Query Results" >>), NoDataNotice >>
                /\ pc' = "done"
           ELSE /\ rendered' = rendered \o
                      << Element("subheader", << "Query Results" >>),
                         Element("dataframe", Rows(n)) >>
                /\ pc' = "summarize"
    /\ calls' = Append(calls, Call("to_dataframe", <<>>, NoException))
    /\ UNCHANGED << runs, fetchCount, question, pressed, columns, column_types,
                    sidebar, sql_prompt, response, sql_code, exception >>

\* lines 108, 139-140: to_dataframe raises
ToDataframeRaises ==
    /\ pc = "materialize"
    /\ \E e \in WarehouseErrors :
        /\ calls' = Append(calls, Call("to_dataframe", <<>>, e))
        /\ rendered' = Append(rendered, ErrorMessage(e))
    /\ pc' = "done"
    /\ UNCHANGED << runs, fetchCount, question, pressed, columns, column_types,
                    sidebar, sql_prompt, response, sql_code, df, exception >>

\* lines 129-137: the summarization call returns; the summary is shown
SummarizeReturns ==
    /\ pc = "summarize"
    /\ \E i \in 1..Len(Summaries) :
        rendered' = rendered \o
            << Element("subheader", << "Summary" >>),
               Element("write", << Summaries[i] >>) >>
    /\ calls' = Append(calls, Call("llm_summary", SummaryPrompt(df), NoException))
    /\ pc' = "done"
    /\ UNCHANGED << runs, fetchCount, question, pressed, columns, column_types,
                    sidebar, sql_prompt, response, sql_code, df, exception >>

\* a summarization failure that no handler catches
SummarizeFailsUncaught ==
    /\ pc = "summarize"
    /\ \E e \in LlmErrors :
        /\ calls' = Append(calls, Call("llm_summary", SummaryPrompt(df), e))
        /\ exception' = e
    /\ pc' = "aborted"
    /\ UNCHANGED << runs, fetchCount, question, pressed, columns, column_types,
                    sidebar, sql_prompt, response, sql_code, df, rendered >>

\* lines 129-133, 139-140: the summarization call raises inside the try block
SummarizeFails ==
    /\ pc = "summarize"
    /\ \E e \in LlmErrors :
        /\ calls' = Append(calls, Call("llm_summary", SummaryPrompt(df), e))
        /\ rendered' = Append(rendered, ErrorMessage(e))
    /\ pc' = "done"
    /\ UNCHANGED << runs, fetchCount, question, pressed, columns, column_types,
                    sidebar, sql_prompt, response, sql_code, df, exception >>

\* a user interaction: Streamlit runs the script again from its first line
Rerun ==
    /\ pc \in { "done", "aborted" }
    /\ runs < MaxRuns
    /\ \E q \in Questions, p \in BOOLEAN :
        /\ question' = q
        /\ pressed' = p
    /\ runs' = runs + 1
    /\ pc' = "start"
    /\ columns' = <<>>
    /\ column_types' = <<>>
    /\ sidebar' = <<>>
    /\ sql_prompt' = <<>>
    /\ response' = <<>>
    /\ sql_code' = <<>>
    /\ df' = <<>>
    /\ rendered' = <<>>
    /\ calls' = <<>>
    /\ exception' = NoException
    /\ UNCHANGED fetchCount

Next ==
    \/ FetchSchema
    \/ FetchSchemaFails
    \/ AskGuard
    \/ GenerateReturns
    \/ GenerateFails
    \/ QueryReturns
    \/ QueryRaises
    \/ ToDataframeReturns
    \/ ToDataframeRaises
    \/ SummarizeReturns
    \/ SummarizeFails
    \/ Rerun

Spec == Init /\ [][Next]_vars

----------------------------------------------------------------------------
(* The cleaning step on its own: lines 101-102 applied to any text, and     *)
(* applied once more to its own output                                      *)

InitClean ==
    /\ pc = "clean"
    /\ response \in Texts
    /\ runs = 1
    /\ fetchCount = 0
    /\ question = <<>>
    /\ pressed = FALSE
    /\ columns = <<>>
    /\ column_types = <<>>
    /\ sidebar = <<>>
    /\ sql_prompt = <<>>
    /\ sql_code = <<>>
    /\ df = <<>>
    /\ rendered = <<>>
    /\ calls = <<>>
    /\ exception = NoException

CleanOnce ==
    /\ pc = "clean"
    /\ sql_code' = Clean(response)
    /\ pc' = "cleaned"
    /\ UNCHANGED << runs, fetchCount, question, pressed, columns, column_types,
                    sidebar, sql_prompt, response, df, rendered, calls,
                    exception >>

CleanAgain ==
    /\ pc = "cleaned"
    /\ sql_code' = Clean(sql_code)
    /\ pc' = "recleaned"
    /\ UNCHANGED << runs, fetchCount, question, pressed, columns, column_types,
                    sidebar, sql_prompt, response, df, rendered, calls,
                    exception >>

NextClean ==
    \/ CleanOnce
    \/ CleanAgain

CleanSpec == InitClean /\ [][NextClean]_vars

----------------------------------------------------------------------------
(* Claims *)

Last(s) == s[Len(s)]

HasOp(op) == \E i \in 1..Len(calls) : calls[i].op = op

HasKind(kind) == \E i \in 1..Len(rendered) : rendered[i].kind = kind

SummaryShown ==
    \E i \in 1..Len(rendered) :
        /\ rendered[i].kind = "subheader"
        /\ rendered[i].body = << "Summary" >>

ExecutionSucceeded ==
    \E i \in 1..Len(calls) :
        calls[i].op = "to_dataframe" /\ ~calls[i].raised

\* C1: in a script run whose question is empty or whitespace-only, or in
\* which Ask was not pressed, no generation, execution or summarization call
\* is made and the handler renders nothing.
C1_BlankQuestionDoesNothing ==
    (IsBlank(question) \/ ~pressed) =>
        /\ ~HasOp("llm_sql")
        /\ ~HasOp("bq_query")
        /\ ~HasOp("to_dataframe")
        /\ ~HasOp("llm_summary")
        /\ rendered = <<>>

\* C2: when the warehouse raises at query submission or at materialization,
\* the run ends with an error message that contains the error text, no
\* summarization call is made, and no results table or summary is rendered.
C2_ExecutionErrorReported ==
    \A i \in 1..Len(calls) :
        (calls[i].op \in { "bq_query", "to_dataframe" } /\ calls[i].raised) =>
            /\ pc = "done"
            /\ Last(rendered).kind = "error"
            /\ Contains(Last(rendered).body, << calls[i].err >>)
            /\ ~HasOp("llm_summary")
            /\ ~HasKind("dataframe")
            /\ ~SummaryShown

C2_Witness ==
    /\ pc = "done"
    /\ \E i \in 1..Len(calls) : calls[i].op = "to_dataframe" /\ calls[i].raised

\* C3: a successful execution with zero rows renders the no-data notice,
\* makes no summarization call and renders neither table nor summary; the
\* summarization call is made iff execution succeeded with at least one row.
C3_EmptyResultSkipsSummary ==
    /\ (ExecutionSucceeded /\ Len(df) = 0) =>
            /\ pc = "done"
            /\ Last(rendered).kind = "warning"
            /\ ~HasOp("llm_summary")
            /\ ~HasKind("dataframe")
            /\ ~SummaryShown
    /\ HasOp("llm_summary") => (ExecutionSucceeded /\ Len(df) >= 1)
    /\ (pc = "done" /\ ExecutionSucceeded /\ Len(df) >= 1) => HasOp("llm_summary")

C3_Witness ==
    /\ pc = "done"
    /\ ExecutionSucceeded
    /\ Len(df) = 0

\* C4: cleaning is idempotent: cleaning the cleaned text returns it
\* unchanged, and the cleaned text holds no triple backquote and no leading
\* or trailing whitespace.
C4_CleanIdempotent ==
    [][ pc' = "recleaned" =>
            /\ sql_code' = sql_code
            /\ ~Contains(sql_code, Fence)
            /\ (sql_code # <<>> =>
                    ~IsSpace(Head(sql_code)) /\ ~IsSpace(Last(sql_code))) ]_vars

C4_Witness ==
    /\ pc = "recleaned"
    /\ Contains(response, Fence)
    /\ Len(response) > Len(sql_code) + Len(Fence)
    /\ BT \in Range(sql_code)

\* C5: the string handed to bq_client.query is the model response trimmed,
\* with every sql fence and every bare fence removed, and trimmed again; for
\* a response that is a body between an sql fence and a closing fence it is
\* that body with markers removed and trimmed; for a response with no fence
\* and no outer whitespace it is the response itself.
C5_ExecutedSqlIsCleanedResponse ==
    \A i \in 1..Len(calls) :
        calls[i].op = "bq_query" =>
            /\ calls[i].data =
                  Strip(RemoveAll(RemoveAll(Strip(response), FenceSql), Fence))
            /\ \A b \in Bodies :
                  response = Fenced(b) =>
                      calls[i].data = Strip(RemoveAll(RemoveAll(b, FenceSql), Fence))
            /\ (~Contains(response, Fence) /\ Strip(response) = response) =>
                  calls[i].data = response

C5_Witness ==
    /\ HasOp("bq_query")
    /\ response = Fenced(<< " ", "S" >>)
    /\ sql_code = << "S" >>

\* C6: the prompt of the generation call holds the name of every column of
\* the fetched schema, each name with its type, and the text of the
\* question, which is not empty.
C6_PromptEnumeratesSchema ==
    \A i \in 1..Len(calls) :
        calls[i].op = "llm_sql" =>
            LET schema == calls[1].data
                prompt == calls[i].data
            IN  /\ calls[1].op = "get_table"
                /\ \A k \in 1..Len(schema) :
                      /\ Contains(prompt, << ", ", schema[k].name >>)
                            \/ Contains(prompt, << PromptRulesHead, schema[k].name >>)
                      /\ Contains(prompt,
                            << "'", schema[k].name, "'", ": ",
                               "'", schema[k].field_type, "'" >>)
                /\ Len(question) > 0
                /\ Contains(prompt, << PromptRulesTail >> \o question)

C6_Witness ==
    /\ HasOp("llm_sql")
    /\ Len(columns) = MaxCols
    /\ Len(question) > 0

\* C7: the schema is fetched exactly once, at process start, and never
\* again: the number of get_table calls stays at one.
C7_SchemaFetchedOnce == fetchCount <= 1

\* C8: within a script run the collaborator calls are a prefix of
\* get_table, generation, query, materialization, summarization, each at
\* most once, and a call that raised is the last call of the run.
C8_StraightLine ==
    /\ Len(calls) <= 5
    /\ \A i \in 1..Len(calls) :
          /\ calls[i].op =
                << "get_table", "llm_sql", "bq_query", "to_dataframe",
                   "llm_summary" >>[i]
          /\ calls[i].raised => i = Len(calls)

C8_Witness ==
    /\ Len(calls) = 5
    /\ pc = "done"

\* C9 as stated: a failure of the summarization call is not handled by the
\* query-execution handler, is not reported through its message, and
\* propagates out of the run.
C9_SummaryFailurePropagates ==
    \A i \in 1..Len(calls) :
        (calls[i].op = "llm_summary" /\ calls[i].raised) =>
            /\ pc = "aborted"
            /\ exception = calls[i].err
            /\ ~HasKind("error")

\* C9 amended: a failure of the summarization call is caught by the
\* query-execution handler: the run ends normally with the query-execution
\* error message holding the error text, after the results table and with
\* no summary.
C9_SummaryFailureCaught ==
    \A i \in 1..Len(calls) :
        (calls[i].op = "llm_summary" /\ calls[i].raised) =>
            /\ pc = "done"
            /\ exception = NoException
            /\ Last(rendered).kind = "error"
            /\ Last(rendered).body = << ErrorLabel, calls[i].err >>
            /\ HasKind("dataframe")
            /\ ~SummaryShown

C9_Witness ==
    \E i \in 1..Len(calls) : calls[i].op = "llm_summary" /\ calls[i].raised

\* C10: a failure of the generation call ends the run: no SQL is shown, no
\* query is executed, no summarization call is made, and the generation call
\* is made once.
C10_GenerationFailureTerminal ==
    \A i \in 1..Len(calls) :
        (calls[i].op = "llm_sql" /\ calls[i].raised) =>
            /\ pc = "aborted"
            /\ exception = calls[i].err
            /\ ~HasKind("code")
            /\ ~HasOp("bq_query")
            /\ ~HasOp("to_dataframe")
            /\ ~HasOp("llm_summary")
            /\ Cardinality({ j \in 1..Len(calls) : calls[j].op = "llm_sql" }) = 1

C10_Witness ==
    \E i \in 1..Len(calls) : calls[i].op = "llm_sql" /\ calls[i].raised

====
